---- MODULE Spec2Model ----
(***************************************************************************)
(* Native-function bridge of the VM runtime: the three primitive helpers   *)
(* native_bytearray_concat, native_address_to_bytes and                    *)
(* native_u64_to_bytes of native_functions/primitive_helpers.rs.           *)
(*                                                                         *)
(* One call is modelled statement by statement: the program counter pc     *)
(* names the source line about to run, arguments is the VecDeque the call  *)
(* owns, arg1/arg2/arg/return_val are the locals, result is the            *)
(* NativeReturnStatus handed back.  args0 and trace are history variables: *)
(* the queue as it was at entry and the sequence of queue operations       *)
(* (length comparison, pop_back, tag check) the call has performed.        *)
(* seen remembers one earlier finished call (native, queue, outcome).      *)
(***************************************************************************)
EXTENDS Integers, Sequences, FiniteSets, TLC

VARIABLES pc, fn, arguments, arg1, arg2, arg, return_val, result,
          args0, trace, seen

vars == <<pc, fn, arguments, arg1, arg2, arg, return_val, result,
          args0, trace, seen>>

(***************************************************************************)
(* Bounds of the model.                                                    *)
(***************************************************************************)
\* longest argument queue handed to a native (the largest arity is 2)
MaxQueue == 3
\* longest byte sequence held by a ByteArray argument
MaxLen == 2
\* width of an account address, in bytes
AddrLen == 2

(***************************************************************************)
(* Values: the VM's tagged runtime value.                                  *)
(***************************************************************************)
ByteVals == {1, 2}

ByteSeqs == UNION {[1..n -> ByteVals] : n \in 0..MaxLen}

\* An AccountAddress is a fixed-width byte array, indexed from 0.
Addresses == {[i \in 0..(AddrLen - 1) |-> i + 1],
              [i \in 0..(AddrLen - 1) |-> 255 - i]}

\* A u64 is written as four 16-bit limbs, most significant first.
U64Zero == <<0, 0, 0, 0>>

U64Max == <<65535, 65535, 65535, 65535>>

\* 0x0102030405060708
U64Mixed == <<258, 772, 1286, 1800>>

\* 0x0000000000000100
U64Small == <<0, 0, 0, 256>>

U64s == {U64Zero, U64Max, U64Mixed, U64Small}

ByteArrayValue(bytes) == [tag |-> "ByteArray", val |-> bytes]

AddressValue(a) == [tag |-> "AccountAddress", val |-> a]

U64Value(n) == [tag |-> "U64", val |-> n]

Values == {ByteArrayValue(b) : b \in ByteSeqs}
            \cup {AddressValue(a) : a \in Addresses}
            \cup {U64Value(n) : n \in U64s}

ArgQueues == UNION {[1..n -> Values] : n \in 0..MaxQueue}

\* One value of each tag: the queues of the replay specification.
ReplayValues == {ByteArrayValue(<<1>>),
                 AddressValue([i \in 0..(AddrLen - 1) |-> i + 1]),
                 U64Value(U64Mixed)}

ReplayQueues == UNION {[1..n -> ReplayValues] : n \in 0..MaxQueue}

Natives == {"bytearray_concat", "address_to_bytes", "u64_to_bytes"}

(***************************************************************************)
(* NativeReturnStatus.                                                     *)
(***************************************************************************)
NoResult == [kind |-> "None"]

NoCall == [fn |-> "none"]

Success(c, rvs) == [kind |-> "Success", cost |-> c, return_values |-> rvs]

InvariantError(code, msg) ==
    [kind |-> "InvariantError", code |-> code, message |-> msg]

\* Variant: the placeholder is left unformatted.
ArityMessage_NoCount(prefix, found) == prefix \o "{}"

\* format!("wrong number of arguments for <name> expected <n> found {}", len)
ArityMessage(prefix, found) == prefix \o ToString(found)

ArityError(prefix, found) ==
    InvariantError("UNREACHABLE", ArityMessage(prefix, found))

(***************************************************************************)
(* pop_arg!(arguments, T): remove the element at the tail of the queue and *)
(* assert its tag; an empty queue or another tag ends the call with an     *)
(* invariant violation.                                                    *)
(***************************************************************************)
TypeMismatch(expected, actual) ==
    InvariantError("UNREACHABLE",
                   "type mismatch: expected " \o expected \o " found " \o actual)

PopArg(q, tag) ==
    IF q = <<>>
    THEN [ok |-> FALSE, rest |-> q, val |-> <<>>,
          err |-> TypeMismatch(tag, "empty queue"),
          events |-> <<"pop_back">>]
    ELSE LET v == q[Len(q)]
             rest == SubSeq(q, 1, Len(q) - 1)
         IN  IF v.tag = tag
             THEN [ok |-> TRUE, rest |-> rest, val |-> v.val,
                   err |-> NoResult,
                   events |-> <<"pop_back", "tag_check">>]
             ELSE [ok |-> FALSE, rest |-> rest, val |-> <<>>,
                   err |-> TypeMismatch(tag, v.tag),
                   events |-> <<"pop_back", "tag_check">>]

(***************************************************************************)
(* Conversions.                                                            *)
(***************************************************************************)
\* arg1.as_bytes().to_vec(): a fresh vector holding the bytes of the slice
BytesToVec(bytes) == [i \in 1..Len(bytes) |-> bytes[i]]

\* Variant: the second argument's bytes are put in front.
ExtendFromSlice_Prepend(vec, bytes) == bytes \o vec

\* return_val.extend_from_slice(arg2.as_bytes())
ExtendFromSlice(vec, bytes) == vec \o bytes

\* Variant: the address bytes are copied in reverse.
AddressToVec_Reversed(a) == [i \in 1..AddrLen |-> a[AddrLen - i]]

\* arg.to_vec() on the address's byte array
AddressToVec(a) == [i \in 1..AddrLen |-> a[i - 1]]

\* Limb k of a u64, k = 0 the least significant.
Limb(n, k) == n[4 - k]

\* Byte i of a u64, i = 0 the least significant: (n / 256^i) mod 256, taken
\* in the limb that holds it.
ByteOf(n, i) == (Limb(n, i \div 2) \div (IF i % 2 = 0 THEN 1 ELSE 256)) % 256

\* Variant: to_be_bytes, most significant byte first.
U64ToBeBytes(n) == [j \in 1..8 |-> ByteOf(n, 8 - j)]

\* arg.to_le_bytes().to_vec(): the eight bytes of a u64, least significant first
U64ToLeBytes(n) == [j \in 1..8 |-> ByteOf(n, j - 1)]

\* Variant: the cost depends on whether an earlier call was made.
CostOf_Stateful(vec) == Len(vec) + (IF seen = NoCall THEN 0 ELSE 1)

\* Variant: the cost is off by one from the bytes produced.
CostOf_OffByOne(vec) == Len(vec) + 1

\* let cost = return_val.len() as u64
CostOf(vec) == Len(vec)

(***************************************************************************)
(* Initial state: no call in progress.                                     *)
(***************************************************************************)
Init ==
    /\ pc = "idle"
    /\ fn = "none"
    /\ arguments = <<>>
    /\ arg1 = <<>>
    /\ arg2 = <<>>
    /\ arg = <<>>
    /\ return_val = <<>>
    /\ result = NoResult
    /\ args0 = <<>>
    /\ trace = <<>>
    /\ seen = NoCall

EntryPc(f) ==
    CASE f = "bytearray_concat" -> "concat_11"
      [] f = "address_to_bytes" -> "address_35"
      [] f = "u64_to_bytes" -> "u64_57"

\* The interpreter invokes a native with an argument queue drawn from Q.
Call(Q) ==
    /\ pc = "idle"
    /\ \E f \in Natives, q \in Q :
          /\ fn' = f
          /\ arguments' = q
          /\ args0' = q
          /\ pc' = EntryPc(f)
    /\ arg1' = <<>>
    /\ arg2' = <<>>
    /\ arg' = <<>>
    /\ return_val' = <<>>
    /\ result' = NoResult
    /\ trace' = <<>>
    /\ UNCHANGED seen

locals == <<arg1, arg2, arg, return_val>>

(***************************************************************************)
(* native_bytearray_concat                                                 *)
(***************************************************************************)
ConcatPrefix == "wrong number of arguments for bytearray_concat expected 2 found "

\* Variant: the length is compared after an element has been popped.
Concat_ArityFail_AfterPop ==
    /\ pc = "concat_11"
    /\ Len(arguments) # 2
    /\ LET r == PopArg(arguments, "ByteArray")
       IN  /\ arguments' = r.rest
           /\ trace' = (trace \o r.events) \o <<"len">>
    /\ result' = ArityError(ConcatPrefix, Len(arguments))
    /\ pc' = "done"
    /\ UNCHANGED <<fn, locals, args0, seen>>

Concat_ArityFail ==
    /\ pc = "concat_11"
    /\ Len(arguments) # 2
    /\ result' = ArityError(ConcatPrefix, Len(arguments))
    /\ trace' = Append(trace, "len")
    /\ pc' = "done"
    /\ UNCHANGED <<fn, arguments, locals, args0, seen>>

\* Variant: the guard only rejects queues that are too short.
Concat_ArityOk_AtLeast ==
    /\ pc = "concat_11"
    /\ ~(Len(arguments) < 2)
    /\ trace' = Append(trace, "len")
    /\ pc' = "concat_20"
    /\ UNCHANGED <<fn, arguments, locals, result, args0, seen>>

Concat_ArityOk ==
    /\ pc = "concat_11"
    /\ ~(Len(arguments) # 2)
    /\ trace' = Append(trace, "len")
    /\ pc' = "concat_20"
    /\ UNCHANGED <<fn, arguments, locals, result, args0, seen>>

\* Variant: the first element popped is bound to the first parameter.
Concat_PopArg2_Swapped ==
    /\ pc = "concat_20"
    /\ LET r == PopArg(arguments, "ByteArray")
       IN  /\ arguments' = r.rest
           /\ trace' = trace \o r.events
           /\ IF r.ok
              THEN /\ arg1' = r.val
                   /\ pc' = "concat_21"
                   /\ UNCHANGED result
              ELSE /\ result' = r.err
                   /\ pc' = "done"
                   /\ UNCHANGED arg1
    /\ UNCHANGED <<fn, arg2, arg, return_val, args0, seen>>

Concat_PopArg2 ==
    /\ pc = "concat_20"
    /\ LET r == PopArg(arguments, "ByteArray")
       IN  /\ arguments' = r.rest
           /\ trace' = trace \o r.events
           /\ IF r.ok
              THEN /\ arg2' = r.val
                   /\ pc' = "concat_21"
                   /\ UNCHANGED result
              ELSE /\ result' = r.err
                   /\ pc' = "done"
                   /\ UNCHANGED arg2
    /\ UNCHANGED <<fn, arg1, arg, return_val, args0, seen>>

\* Variant: a mismatched first argument is replaced by the empty sequence.
Concat_PopArg1_Coerce ==
    /\ pc = "concat_21"
    /\ LET r == PopArg(arguments, "ByteArray")
       IN  /\ arguments' = r.rest
           /\ trace' = trace \o r.events
           /\ arg1' = IF r.ok THEN r.val ELSE <<>>
           /\ pc' = "concat_22"
           /\ UNCHANGED result
    /\ UNCHANGED <<fn, arg2, arg, return_val, args0, seen>>

Concat_PopArg1 ==
    /\ pc = "concat_21"
    /\ LET r == PopArg(arguments, "ByteArray")
       IN  /\ arguments' = r.rest
           /\ trace' = trace \o r.events
           /\ IF r.ok
              THEN /\ arg1' = r.val
                   /\ pc' = "concat_22"
                   /\ UNCHANGED result
              ELSE /\ result' = r.err
                   /\ pc' = "done"
                   /\ UNCHANGED arg1
    /\ UNCHANGED <<fn, arg2, arg, return_val, args0, seen>>

Concat_ToVec ==
    /\ pc = "concat_22"
    /\ return_val' = BytesToVec(arg1)
    /\ pc' = "concat_23"
    /\ UNCHANGED <<fn, arguments, arg1, arg2, arg, result, args0, trace, seen>>

Concat_Extend ==
    /\ pc = "concat_23"
    /\ return_val' = ExtendFromSlice(return_val, arg2)
    /\ pc' = "concat_26"
    /\ UNCHANGED <<fn, arguments, arg1, arg2, arg, result, args0, trace, seen>>

Concat_Success ==
    /\ pc = "concat_26"
    /\ LET cost == CostOf(return_val)
           return_values == <<ByteArrayValue(return_val)>>
       IN  result' = Success(cost, return_values)
    /\ pc' = "done"
    /\ UNCHANGED <<fn, arguments, locals, args0, trace, seen>>

(***************************************************************************)
(* native_address_to_bytes                                                 *)
(***************************************************************************)
AddressPrefix == "wrong number of arguments for address_to_bytes expected 1 found "

Address_ArityFail ==
    /\ pc = "address_35"
    /\ Len(arguments) # 1
    /\ result' = ArityError(AddressPrefix, Len(arguments))
    /\ trace' = Append(trace, "len")
    /\ pc' = "done"
    /\ UNCHANGED <<fn, arguments, locals, args0, seen>>

Address_ArityOk ==
    /\ pc = "address_35"
    /\ ~(Len(arguments) # 1)
    /\ trace' = Append(trace, "len")
    /\ pc' = "address_44"
    /\ UNCHANGED <<fn, arguments, locals, result, args0, seen>>

Address_PopArg ==
    /\ pc = "address_44"
    /\ LET r == PopArg(arguments, "AccountAddress")
       IN  /\ arguments' = r.rest
           /\ trace' = trace \o r.events
           /\ IF r.ok
              THEN /\ arg' = r.val
                   /\ pc' = "address_45"
                   /\ UNCHANGED result
              ELSE /\ result' = r.err
                   /\ pc' = "done"
                   /\ UNCHANGED arg
    /\ UNCHANGED <<fn, arg1, arg2, return_val, args0, seen>>

Address_ToVec ==
    /\ pc = "address_45"
    /\ return_val' = AddressToVec(arg)
    /\ pc' = "address_48"
    /\ UNCHANGED <<fn, arguments, arg1, arg2, arg, result, args0, trace, seen>>

Address_Success ==
    /\ pc = "address_48"
    /\ LET cost == CostOf(return_val)
           return_values == <<ByteArrayValue(return_val)>>
       IN  result' = Success(cost, return_values)
    /\ pc' = "done"
    /\ UNCHANGED <<fn, arguments, locals, args0, trace, seen>>

(***************************************************************************)
(* native_u64_to_bytes                                                     *)
(***************************************************************************)
U64Prefix == "wrong number of arguments for u64_to_bytes expected 1 found "

U64_ArityFail ==
    /\ pc = "u64_57"
    /\ Len(arguments) # 1
    /\ result' = ArityError(U64Prefix, Len(arguments))
    /\ trace' = Append(trace, "len")
    /\ pc' = "done"
    /\ UNCHANGED <<fn, arguments, locals, args0, seen>>

U64_ArityOk ==
    /\ pc = "u64_57"
    /\ ~(Len(arguments) # 1)
    /\ trace' = Append(trace, "len")
    /\ pc' = "u64_66"
    /\ UNCHANGED <<fn, arguments, locals, result, args0, seen>>

U64_PopArg ==
    /\ pc = "u64_66"
    /\ LET r == PopArg(arguments, "U64")
       IN  /\ arguments' = r.rest
           /\ trace' = trace \o r.events
           /\ IF r.ok
              THEN /\ arg' = r.val
                   /\ pc' = "u64_67"
                   /\ UNCHANGED result
              ELSE /\ result' = r.err
                   /\ pc' = "done"
                   /\ UNCHANGED arg
    /\ UNCHANGED <<fn, arg1, arg2, return_val, args0, seen>>

U64_ToLeBytes ==
    /\ pc = "u64_67"
    /\ return_val' = U64ToLeBytes(arg)
    /\ pc' = "u64_70"
    /\ UNCHANGED <<fn, arguments, arg1, arg2, arg, result, args0, trace, seen>>

U64_Success ==
    /\ pc = "u64_70"
    /\ LET cost == CostOf(return_val)
           return_values == <<ByteArrayValue(return_val)>>
       IN  result' = Success(cost, return_values)
    /\ pc' = "done"
    /\ UNCHANGED <<fn, arguments, locals, args0, trace, seen>>

(***************************************************************************)
(* The call returns to the interpreter: the frame and its queue are gone.  *)
(***************************************************************************)
Return ==
    /\ pc = "done"
    /\ pc' = "idle"
    /\ fn' = "none"
    /\ arguments' = <<>>
    /\ arg1' = <<>>
    /\ arg2' = <<>>
    /\ arg' = <<>>
    /\ return_val' = <<>>
    /\ result' = NoResult
    /\ args0' = <<>>
    /\ trace' = <<>>
    /\ UNCHANGED seen

\* As Return, and the finished call is remembered for a later comparison.
ReturnRemembered ==
    /\ pc = "done"
    /\ seen' = [fn |-> fn, args |-> args0, result |-> result]
    /\ pc' = "idle"
    /\ fn' = "none"
    /\ arguments' = <<>>
    /\ arg1' = <<>>
    /\ arg2' = <<>>
    /\ arg' = <<>>
    /\ return_val' = <<>>
    /\ result' = NoResult
    /\ args0' = <<>>
    /\ trace' = <<>>

Step ==
    \/ Concat_ArityFail
    \/ Concat_ArityOk
    \/ Concat_PopArg2
    \/ Concat_PopArg1
    \/ Concat_ToVec
    \/ Concat_Extend
    \/ Concat_Success
    \/ Address_ArityFail
    \/ Address_ArityOk
    \/ Address_PopArg
    \/ Address_ToVec
    \/ Address_Success
    \/ U64_ArityFail
    \/ U64_ArityOk
    \/ U64_PopArg
    \/ U64_ToLeBytes
    \/ U64_Success

CallAny == Call(ArgQueues)

CallReplay == Call(ReplayQueues)

Next == CallAny \/ Step \/ Return

Spec == Init /\ [][Next]_vars

\* Calls over the replay queues, any finished call may be remembered.
NextReplay == CallReplay \/ Step \/ Return \/ ReturnRemembered

SpecReplay == Init /\ [][NextReplay]_vars

(***************************************************************************)
(* Vocabulary of the properties.                                           *)
(***************************************************************************)
\* declared arity: the constant each native compares arguments.len() with
Arity(f) == IF f = "bytearray_concat" THEN 2 ELSE 1

\* the tag each native extracts with pop_arg!
ExpectedTag(f) ==
    CASE f = "bytearray_concat" -> "ByteArray"
      [] f = "address_to_bytes" -> "AccountAddress"
      [] f = "u64_to_bytes" -> "U64"

Count(events, e) == Cardinality({i \in 1..Len(events) : events[i] = e})

Returned == pc = "done"

WrongArity == Len(args0) # Arity(fn)

WellTagged == \A i \in 1..Len(args0) : args0[i].tag = ExpectedTag(fn)

IsPrefix(s, t) == Len(s) <= Len(t) /\ \A i \in 1..Len(s) : s[i] = t[i]

\* C1: a call whose queue length M differs from the declared arity N returns
\* InvariantViolation with fault code UNREACHABLE and the message
\* "wrong number of arguments for <name> expected <N> found <M>".
C1_ArityViolationMessage ==
    (Returned /\ WrongArity) =>
        result = [kind |-> "InvariantError",
                  code |-> "UNREACHABLE",
                  message |-> "wrong number of arguments for " \o fn
                                \o " expected " \o ToString(Arity(fn))
                                \o " found " \o ToString(Len(args0))]

C1_Witness ==
    /\ Returned
    /\ fn = "bytearray_concat"
    /\ Len(args0) = 1
    /\ result.kind = "InvariantError"
    /\ result.message
         = "wrong number of arguments for bytearray_concat expected 2 found 1"

\* C2: concat on the queue [A, B] of two byte sequences returns Success with
\* exactly one return value, the bytes of A followed by the bytes of B, and
\* cost = len(A) + len(B).
C2_ConcatResult ==
    (/\ Returned
     /\ fn = "bytearray_concat"
     /\ Len(args0) = 2
     /\ WellTagged) =>
        LET A == args0[1].val
            B == args0[2].val
        IN  /\ result.kind = "Success"
            /\ result.cost = Len(A) + Len(B)
            /\ Len(result.return_values) = 1
            /\ result.return_values[1].tag = "ByteArray"
            /\ LET out == result.return_values[1].val
               IN  /\ Len(out) = Len(A) + Len(B)
                   /\ \A i \in 1..Len(A) : out[i] = A[i]
                   /\ \A j \in 1..Len(B) : out[Len(A) + j] = B[j]

C2_Witness ==
    /\ Returned
    /\ fn = "bytearray_concat"
    /\ args0 = <<ByteArrayValue(<<1, 2>>), ByteArrayValue(<<2, 1>>)>>
    /\ result = Success(4, <<ByteArrayValue(<<1, 2, 2, 1>>)>>)

\* C3: u64_to_bytes on the queue [N] returns Success with exactly one return
\* value, the eight bytes of N least significant first (so that the bytes,
\* weighted by the powers of 256, add up to N), and cost = 8.
C3_U64LittleEndian ==
    (/\ Returned
     /\ fn = "u64_to_bytes"
     /\ Len(args0) = 1
     /\ WellTagged) =>
        LET N == args0[1].val
        IN  /\ result.kind = "Success"
            /\ result.cost = 8
            /\ Len(result.return_values) = 1
            /\ result.return_values[1].tag = "ByteArray"
            /\ LET out == result.return_values[1].val
               IN  /\ Len(out) = 8
                   /\ \A i \in 1..8 : out[i] \in 0..255
                   \* limb k (0 = least significant) is N[4 - k]
                   /\ \A k \in 0..3 :
                         N[4 - k] = out[2 * k + 1] + 256 * out[2 * k + 2]

C3_Witness ==
    /\ Returned
    /\ fn = "u64_to_bytes"
    /\ args0 = <<U64Value(U64Mixed)>>
    /\ result = Success(8, <<ByteArrayValue(<<8, 7, 6, 5, 4, 3, 2, 1>>)>>)

\* C4: address_to_bytes on the queue [X] returns Success with exactly one
\* return value, the bytes of X's fixed-width representation in the same
\* order, and cost equal to that width.
C4_AddressBytes ==
    (/\ Returned
     /\ fn = "address_to_bytes"
     /\ Len(args0) = 1
     /\ WellTagged) =>
        LET X == args0[1].val
        IN  /\ result.kind = "Success"
            /\ result.cost = AddrLen
            /\ Len(result.return_values) = 1
            /\ result.return_values[1].tag = "ByteArray"
            /\ LET out == result.return_values[1].val
               IN  /\ Len(out) = AddrLen
                   /\ \A i \in 0..(AddrLen - 1) : out[i + 1] = X[i]

C4_Witness ==
    /\ Returned
    /\ fn = "address_to_bytes"
    /\ Len(args0) = 1
    /\ args0[1].tag = "AccountAddress"
    /\ args0[1].val[0] = 255
    /\ result.kind = "Success"
    /\ result.return_values[1].val[1] = 255

\* C5: a call on an empty queue, or on a queue of the declared length in
\* which some argument carries another tag than the expected one, returns
\* InvariantViolation, never Success.
C5_MismatchIsViolation ==
    (/\ Returned
     /\ \/ args0 = <<>>
        \/ (~WrongArity /\ ~WellTagged)) =>
        /\ result.kind = "InvariantError"
        /\ result.code = "UNREACHABLE"

C5_Witness ==
    /\ Returned
    /\ fn = "bytearray_concat"
    /\ Len(args0) = 2
    /\ args0[1].tag = "AccountAddress"
    /\ args0[2].tag = "ByteArray"
    /\ result.kind = "InvariantError"

C7_ArityCheckFirst ==
    /\ Count(trace, "len") <= 1
    /\ trace # <<>> => trace[1] = "len"
    /\ arguments # args0 => Count(trace, "len") = 1
    /\ (Returned /\ WrongArity) =>
          /\ trace = <<"len">>
          /\ arguments = args0
          /\ result = ArityError("wrong number of arguments for " \o fn
                                   \o " expected " \o ToString(Arity(fn))
                                   \o " found ", Len(args0))

C7_Witness ==
    /\ Returned
    /\ fn = "bytearray_concat"
    /\ Len(args0) = 3
    /\ args0[3].tag = "U64"
    /\ trace = <<"len">>
    /\ arguments = args0

\* C8: concat removes only from the tail: the first element popped is the
\* last one pushed and is bound to the second parameter, the second popped is
\* the first pushed and is bound to the first parameter; a tail that is no
\* byte sequence fails the first pop with the head still queued, a head that
\* is no byte sequence (under a tail that is one) fails only the second pop.
C8_ReversePopOrder ==
    /\ pc = "concat_21" =>
          /\ arg2 = args0[2].val
          /\ arguments = <<args0[1]>>
    /\ pc = "concat_22" =>
          /\ arg1 = args0[1].val
          /\ arg2 = args0[2].val
          /\ arguments = <<>>
    /\ (/\ Returned
        /\ fn = "bytearray_concat"
        /\ Len(args0) = 2
        /\ args0[2].tag # "ByteArray") =>
          /\ result.kind = "InvariantError"
          /\ trace = <<"len", "pop_back", "tag_check">>
          /\ arguments = <<args0[1]>>
    /\ (/\ Returned
        /\ fn = "bytearray_concat"
        /\ Len(args0) = 2
        /\ args0[2].tag = "ByteArray"
        /\ args0[1].tag # "ByteArray") =>
          /\ result.kind = "InvariantError"
          /\ trace = <<"len", "pop_back", "tag_check", "pop_back", "tag_check">>
          /\ arguments = <<>>

C8_Witness ==
    /\ Returned
    /\ fn = "bytearray_concat"
    /\ Len(args0) = 2
    /\ args0[2].tag = "U64"
    /\ args0[1].tag = "ByteArray"
    /\ arguments = <<args0[1]>>
    /\ result.kind = "InvariantError"

C10_Outcome ==
    Returned =>
        /\ result.kind \in {"Success", "InvariantError"}
        /\ result.kind = "Success" <=> (~WrongArity /\ WellTagged)
        /\ result.kind = "Success" =>
              /\ Len(result.return_values) = 1
              /\ result.return_values[1].tag = "ByteArray"
              /\ result.cost = Len(result.return_values[1].val)

\* position of a statement in the straight-line body of its native
Rank(p) ==
    CASE p = "idle" -> 0
      [] p \in {"concat_11", "address_35", "u64_57"} -> 1
      [] p \in {"concat_20", "address_44", "u64_66"} -> 2
      [] p \in {"concat_21", "address_45", "u64_67"} -> 3
      [] p \in {"concat_22", "address_48", "u64_70"} -> 4
      [] p = "concat_23" -> 5
      [] p = "concat_26" -> 6
      [] p = "done" -> 7

\* Termination is stated as safety: a call in progress can always take its
\* next statement, every statement moves strictly forward through the finite
\* body, and the outcome, once set, stays until the call has returned.
C10_OutcomeAndTermination ==
    /\ []C10_Outcome
    /\ [](pc \notin {"idle", "done"} => (ENABLED Step /\ result = NoResult))
    /\ [][pc # "done" => Rank(pc') > Rank(pc)]_vars
    /\ [][result # NoResult => (result' = result \/ pc' = "idle")]_vars

C10_Witness ==
    /\ Returned
    /\ fn = "u64_to_bytes"
    /\ result.kind = "Success"
    /\ result.cost = 8

====
